---- MODULE Spec2Model ----
(***************************************************************************)
(* image_gen: a command-line driver (cli.py) over two image backends       *)
(* (openai_backend.py, gemini_backend.py).                                 *)
(*                                                                         *)
(* Strings whose characters matter (the --size argument) are sequences of  *)
(* one-character strings.  Python's int is arbitrary precision and its     *)
(* float is IEEE-754 binary64; both are modelled exactly: a natural is a   *)
(* little-endian sequence of 15-bit limbs, a float is sign * m * 2^e with  *)
(* m a natural below 2^53, rounded to nearest, ties to even.               *)
(***************************************************************************)
EXTENDS Integers, Sequences, FiniteSets, TLC

(***************************************************************************)
(* Arbitrary-precision naturals (Python int magnitudes).                   *)
(***************************************************************************)
Base == 32768

LimbBits == 15

Max(x, y) == IF x >= y THEN x ELSE y

Min(x, y) == IF x <= y THEN x ELSE y

\* 2^n, for n in 0..15
Pow2(n) ==
    <<1, 2, 4, 8, 16, 32, 64, 128, 256, 512, 1024, 2048, 4096, 8192, 16384, 32768>>[n + 1]

\* the function f on 1..n as a tuple, each element evaluated once
Eager(f) == SubSeq(f, 1, Len(f))

\* the natural without its leading zero limbs
Norm(a) ==
    IF Len(a) = 0 THEN <<>>
    ELSE IF a[Len(a)] # 0 THEN SubSeq(a, 1, Len(a))
    ELSE LET nz == {i \in 1..Len(a) : a[i] # 0}
         IN  IF nz = {} THEN <<>>
             ELSE SubSeq(a, 1, CHOOSE m \in nz : \A i \in nz : i <= m)

Limb(a, i) == IF i >= 1 /\ i <= Len(a) THEN a[i] ELSE 0

RECURSIVE BigFromInt(_)
BigFromInt(n) == IF n = 0 THEN <<>> ELSE <<n % Base>> \o BigFromInt(n \div Base)

RECURSIVE SmallBitLen(_)
SmallBitLen(n) == IF n = 0 THEN 0 ELSE 1 + SmallBitLen(n \div 2)

BitLen(a) == IF a = <<>> THEN 0 ELSE LimbBits * (Len(a) - 1) + SmallBitLen(a[Len(a)])

\* -1, 0, 1 as a < b, a = b, a > b (both normalised)
BigCmp(a, b) ==
    IF Len(a) # Len(b) THEN (IF Len(a) < Len(b) THEN -1 ELSE 1)
    ELSE IF a = b THEN 0
    ELSE LET i == CHOOSE k \in 1..Len(a) :
                      a[k] # b[k] /\ \A j \in (k + 1)..Len(a) : a[j] = b[j]
         IN  IF a[i] < b[i] THEN -1 ELSE 1

\* a + b; the carry into limb i is generated below i and propagated up to i
BigAdd(a, b) ==
    IF a = <<>> THEN b
    ELSE IF b = <<>> THEN a
    ELSE LET n == Max(Len(a), Len(b)) + 1
             t == Eager([i \in 1..n |-> Limb(a, i) + Limb(b, i)])
             carry(i) == IF \E j \in 1..(i - 1) :
                               t[j] >= Base /\ \A k \in (j + 1)..(i - 1) : t[k] = Base - 1
                         THEN 1 ELSE 0
         IN  Norm([i \in 1..n |-> (t[i] + carry(i)) % Base])

\* a - b, for a >= b
BigSub(a, b) ==
    IF b = <<>> THEN a
    ELSE IF a = b THEN <<>>
    ELSE LET t == Eager([i \in 1..Len(a) |-> a[i] - Limb(b, i)])
             borrow(i) == IF \E j \in 1..(i - 1) :
                                t[j] < 0 /\ \A k \in (j + 1)..(i - 1) : t[k] = 0
                          THEN 1 ELSE 0
         IN  Norm([i \in 1..Len(a) |-> (t[i] + Base - borrow(i)) % Base])

\* a * k, for 0 <= k < Base
BigMulSmall(a, k) ==
    IF a = <<>> \/ k = 0 THEN <<>>
    ELSE
    BigAdd(Norm([i \in 1..Len(a) |-> (a[i] * k) % Base]),
           Norm([i \in 1..(Len(a) + 1) |-> (Limb(a, i - 1) * k) \div Base]))

\* a * 2^n
BigShl(a, n) ==
    IF a = <<>> THEN <<>>
    ELSE LET q == n \div LimbBits
             f == Pow2(n % LimbBits)
         IN  Norm([i \in 1..(Len(a) + q + 1) |->
                     IF i <= q THEN 0
                     ELSE ((Limb(a, i - q) * f) % Base) + ((Limb(a, i - q - 1) * f) \div Base)])

\* a \div 2^n
BigShr(a, n) ==
    LET q == n \div LimbBits
        r == n % LimbBits
    IN  IF q >= Len(a) THEN <<>>
        ELSE Norm([i \in 1..(Len(a) - q) |->
                     (Limb(a, i + q) \div Pow2(r))
                     + ((Limb(a, i + q + 1) % Pow2(r)) * Pow2(LimbBits - r))])

\* a % 2^n
BigLow(a, n) ==
    LET q == n \div LimbBits
        r == n % LimbBits
    IN  IF q >= Len(a) THEN a
        ELSE Norm([i \in 1..(q + 1) |-> IF i <= q THEN a[i] ELSE a[i] % Pow2(r)])

BigOdd(a) == a # <<>> /\ a[1] % 2 = 1

\* the sum of p[lo..hi], by halves
RECURSIVE BigSum(_, _, _)
BigSum(p, lo, hi) ==
    IF lo > hi THEN <<>>
    ELSE IF lo = hi THEN p[lo]
    ELSE LET mid == (lo + hi) \div 2
         IN  BigAdd(BigSum(p, lo, mid), BigSum(p, mid + 1, hi))

\* a * b
BigMul(a, b) ==
    IF a = <<>> \/ b = <<>> THEN <<>>
    ELSE LET p == Eager([i \in 1..Len(b) |->
                           BigShl(BigMulSmall(a, b[i]), LimbBits * (i - 1))])
         IN  BigSum(p, 1, Len(b))

\* k + 1 quotient bits of r by d * 2^sh, the most significant first:
\* [g, r] with r the remainder left and g the bits as a number
RECURSIVE DivBits(_, _, _, _)
DivBits(r, d, sh, k) ==
    IF k < 0 \/ r = <<>> THEN [g |-> 0, r |-> r]
    ELSE LET t == BigShl(d, sh + k)
         IN  IF BigCmp(t, r) <= 0
             THEN LET rest == DivBits(BigSub(r, t), d, sh, k - 1)
                  IN  [g |-> Pow2(k) + rest.g, r |-> rest.r]
             ELSE DivBits(r, d, sh, k - 1)

\* the state [q, r] of the long division after one more digit res of weight 2^sh
DivAcc(q, res, sh) == [q |-> BigAdd(q, BigShl(BigFromInt(res.g), sh)), r |-> res.r]

\* one quotient digit (7 bits) of st.r by d * 2^sh
DivStep(st, d, sh) == DivAcc(st.q, DivBits(st.r, d, sh, 6), sh)

\* quotient and remainder of n by d, for n < d * 2^56: eight digits of
\* seven bits, the most significant first
DivMod(n, d) ==
    DivStep(DivStep(DivStep(DivStep(DivStep(DivStep(DivStep(DivStep(
        [q |-> <<>>, r |-> n], d, 49), d, 42), d, 35), d, 28), d, 21), d, 14), d, 7), d, 0)

(***************************************************************************)
(* Python float: IEEE-754 binary64.  A float is [neg, m, e], the value     *)
(* (-1)^neg * m * 2^e with m a natural; Round brings m below 2^53.         *)
(***************************************************************************)
MantBits == 53

MinExp == -1074

MaxExp == 1024

\* q rounded up when the discarded part compares c (-1, 0, 1) with one half
RoundUp(neg, q, c, e) ==
    [neg |-> neg, m |-> IF c > 0 \/ (c = 0 /\ BigOdd(q)) THEN BigAdd(q, <<1>>) ELSE q, e |-> e]

\* n * 2^e with its d lowest bits rounded away
RoundAt(neg, n, e, d) ==
    IF d <= 0 THEN [neg |-> neg, m |-> n, e |-> e]
    ELSE RoundUp(neg, BigShr(n, d), BigCmp(BigLow(n, d), BigShl(<<1>>, d - 1)), e + d)

\* n * 2^e rounded to the nearest float, ties to even (subnormals included)
Round(neg, n, e) == RoundAt(neg, n, e, Max(BitLen(n) - MantBits, MinExp - e))

\* the float is finite: below 2^1024 in magnitude
Finite(x) == BitLen(x.m) + x.e <= MaxExp

FloatOfInt(k) == Round(k < 0, BigFromInt(IF k < 0 THEN -k ELSE k), 0)

\* the rounded quotient, or OverflowError when it is no finite float
Checked(x) == IF Finite(x) THEN [exc |-> "", val |-> x] ELSE [exc |-> "OverflowError"]

\* from quotient and remainder of the scaled division: the remainder is the sticky bit
Rounded(neg, qr, s) ==
    Checked(Round(neg, BigAdd(BigShl(qr.q, 1), IF qr.r = <<>> THEN <<>> ELSE <<1>>), -s - 1))

\* wm / hm with the dividend scaled by 2^s, so that the quotient has 55 or 56 bits
DivRound(neg, wm, hm, s) ==
    Rounded(neg, DivMod(IF s >= 0 THEN BigShl(wm, s) ELSE wm,
                        IF s >= 0 THEN hm ELSE BigShl(hm, -s)), s)

\* int / int (true division), correctly rounded; w and h are [neg, mag]
TrueDiv(w, h) ==
    IF h.mag = <<>> THEN [exc |-> "ZeroDivisionError"]
    ELSE IF w.mag = <<>> THEN [exc |-> "", val |-> [neg |-> w.neg # h.neg, m |-> <<>>, e |-> 0]]
    ELSE DivRound(w.neg # h.neg, w.mag, h.mag,
                  (MantBits + 2) - (BitLen(w.mag) - BitLen(h.mag)))

\* (-1)^xn * a - (-1)^yn * b, both scaled by 2^lo
FSubMag(xn, yn, a, b, lo) ==
    IF xn # yn THEN Round(xn, BigAdd(a, b), lo)
    ELSE IF BigCmp(a, b) >= 0 THEN Round(xn, BigSub(a, b), lo)
    ELSE Round(~xn, BigSub(b, a), lo)

FSubAt(x, y, lo) == FSubMag(x.neg, y.neg, BigShl(x.m, x.e - lo), BigShl(y.m, y.e - lo), lo)

\* x - y, correctly rounded
FSub(x, y) == FSubAt(x, y, Min(x.e, y.e))

FAbs(x) == [x EXCEPT !.neg = FALSE]

\* x < y, for x >= 0 and y >= 0
FLessAbs(x, y) ==
    LET lo == Min(x.e, y.e)
    IN  BigCmp(BigShl(x.m, x.e - lo), BigShl(y.m, y.e - lo)) < 0

PyIntOf(k) == [neg |-> k < 0, mag |-> BigFromInt(IF k < 0 THEN -k ELSE k)]

(***************************************************************************)
(* Characters and str methods used by _parse_size.                         *)
(***************************************************************************)
DigitChars == <<"0", "1", "2", "3", "4", "5", "6", "7", "8", "9">>

IsDigit(c) == \E i \in 1..Len(DigitChars) : DigitChars[i] = c

DigitVal(c) == (CHOOSE i \in 1..Len(DigitChars) : DigitChars[i] = c) - 1

\* str.lower on one character ("X" is the one cased character that matters here)
LowerChar(c) ==
    CASE c = "X" -> "x"
      [] c = "A" -> "a"
      [] OTHER -> c

Lower(s) == [i \in 1..Len(s) |-> LowerChar(s[i])]

Contains(s, c) == \E i \in 1..Len(s) : s[i] = c

\* str.split(sep): the parts between the occurrences of sep
RECURSIVE Split(_, _)
Split(s, sep) ==
    IF ~Contains(s, sep) THEN <<s>>
    ELSE LET i == CHOOSE k \in 1..Len(s) :
                      s[k] = sep /\ \A j \in 1..(k - 1) : s[j] # sep
         IN  <<SubSeq(s, 1, i - 1)>> \o Split(SubSeq(s, i + 1, Len(s)), sep)

RECURSIVE Strip(_)
Strip(s) ==
    IF s = <<>> THEN s
    ELSE IF s[1] = " " THEN Strip(SubSeq(s, 2, Len(s)))
    ELSE IF s[Len(s)] = " " THEN Strip(SubSeq(s, 1, Len(s) - 1))
    ELSE s

\* the digits of a literal body: digits, single underscores between digits
DigitsOk(s) ==
    /\ s # <<>>
    /\ \A i \in 1..Len(s) :
          \/ IsDigit(s[i])
          \/ s[i] = "_" /\ i > 1 /\ i < Len(s) /\ IsDigit(s[i - 1]) /\ IsDigit(s[i + 1])

\* 10^n
RECURSIVE Pow10(_)
Pow10(n) ==
    IF n = 0 THEN <<1>>
    ELSE LET h == Pow10(n \div 2)
             sq == BigMul(h, h)
         IN  IF n % 2 = 1 THEN BigMulSmall(sq, 10) ELSE sq

\* the value of a sequence of decimal digits, by halves
RECURSIVE Magnitude(_)
Magnitude(s) ==
    IF s = <<>> THEN <<>>
    ELSE IF Len(s) = 1 THEN BigFromInt(DigitVal(s[1]))
    ELSE LET h == Len(s) \div 2
             hi == SubSeq(s, 1, h)
             lo == SubSeq(s, h + 1, Len(s))
         IN  BigAdd(BigMul(Magnitude(hi), Pow10(Len(lo))), Magnitude(lo))

\* the literal t without its sign: ok with [neg, mag], or not ok (ValueError)
PyIntBody(neg, body) ==
    IF DigitsOk(body)
    THEN [ok |-> TRUE, neg |-> neg, mag |-> Magnitude(SelectSeq(body, IsDigit))]
    ELSE [ok |-> FALSE]

PyIntStripped(t) ==
    IF t # <<>> /\ t[1] \in {"+", "-"} THEN PyIntBody(t[1] = "-", Tail(t))
    ELSE PyIntBody(FALSE, t)

\* int(str): ok with [neg, mag], or ValueError
PyInt(str) == PyIntStripped(Strip(str))

(***************************************************************************)
(* gemini_backend.py: the size tables and _parse_size.                     *)
(***************************************************************************)
\* SIZE_TO_ASPECT, as <<key, value>> pairs
SIZE_TO_ASPECT_ITEMS ==
    {  <<<<"1", "0", "2", "4", "x", "1", "0", "2", "4">>, <<"1", ":", "1">>>>,
       <<<<"1", "5", "3", "6", "x", "1", "5", "3", "6">>, <<"1", ":", "1">>>>,
       <<<<"2", "0", "4", "8", "x", "2", "0", "4", "8">>, <<"1", ":", "1">>>>,
       <<<<"1", "9", "2", "0", "x", "1", "0", "8", "0">>, <<"1", "6", ":", "9">>>>,
       <<<<"1", "2", "8", "0", "x", "7", "2", "0">>, <<"1", "6", ":", "9">>>>,
       <<<<"3", "8", "4", "0", "x", "2", "1", "6", "0">>, <<"1", "6", ":", "9">>>>,
       <<<<"1", "3", "4", "4", "x", "7", "6", "8">>, <<"1", "6", ":", "9">>>>,
       <<<<"1", "0", "8", "0", "x", "1", "9", "2", "0">>, <<"9", ":", "1", "6">>>>,
       <<<<"7", "2", "0", "x", "1", "2", "8", "0">>, <<"9", ":", "1", "6">>>>,
       <<<<"1", "0", "2", "4", "x", "7", "6", "8">>, <<"4", ":", "3">>>>,
       <<<<"1", "2", "8", "0", "x", "9", "6", "0">>, <<"4", ":", "3">>>>,
       <<<<"7", "6", "8", "x", "1", "0", "2", "4">>, <<"3", ":", "4">>>>,
       <<<<"9", "6", "0", "x", "1", "2", "8", "0">>, <<"3", ":", "4">>>>,
       <<<<"2", "5", "6", "0", "x", "1", "0", "8", "0">>, <<"2", "1", ":", "9">>>>,
       <<<<"3", "4", "4", "0", "x", "1", "4", "4", "0">>, <<"2", "1", ":", "9">>>>,
       <<<<"1", "5", "3", "6", "x", "6", "7", "2">>, <<"2", "1", ":", "9">>>> }

SizeKeys == {kv[1] : kv \in SIZE_TO_ASPECT_ITEMS}

SIZE_TO_ASPECT(size) == (CHOOSE kv \in SIZE_TO_ASPECT_ITEMS : kv[1] = size)[2]

VALID_ASPECTS ==
    { <<"1", ":", "1">>, <<"1", "6", ":", "9">>, <<"9", ":", "1", "6">>, <<"4", ":", "3">>, <<"3", ":", "4">>, <<"2", "1", ":", "9">> }

\* the dict literal `aspects` of _parse_size, in insertion order
aspects ==
    << [k |-> FloatOfInt(1), v |-> <<"1", ":", "1">>],
       [k |-> TrueDiv(PyIntOf(16), PyIntOf(9)).val, v |-> <<"1", "6", ":", "9">>],
       [k |-> TrueDiv(PyIntOf(9), PyIntOf(16)).val, v |-> <<"9", ":", "1", "6">>],
       [k |-> TrueDiv(PyIntOf(4), PyIntOf(3)).val, v |-> <<"4", ":", "3">>],
       [k |-> TrueDiv(PyIntOf(3), PyIntOf(4)).val, v |-> <<"3", ":", "4">>],
       [k |-> TrueDiv(PyIntOf(21), PyIntOf(9)).val, v |-> <<"2", "1", ":", "9">>] >>

\* the first index of a minimal element of dist
FirstMin(dist) ==
    CHOOSE k \in 1..Len(dist) :
        /\ \A j \in 1..(k - 1) : FLessAbs(dist[k], dist[j])
        /\ \A j \in (k + 1)..Len(dist) : ~FLessAbs(dist[j], dist[k])

\* min(tbl.keys(), key=lambda x: abs(x - ratio)): the first minimal key of tbl
closest(tbl, ratio) == FirstMin(Eager([k \in 1..Len(tbl) |-> FAbs(FSub(tbl[k].k, ratio))]))

\* return aspects[closest], None
Pick(tbl, ratio) == [exc |-> "", aspect |-> tbl[closest(tbl, ratio)].v]

\* ratio = w / h, then the lookup
TryDiv(ratio) == IF ratio.exc # "" THEN [exc |-> ratio.exc] ELSE Pick(aspects, ratio.val)

TryInts(w, h) == IF ~w.ok \/ ~h.ok THEN [exc |-> "ValueError"] ELSE TryDiv(TrueDiv(w, h))

\* w, h = map(int, parts): two parts exactly, each an int literal
TryParts(parts) ==
    IF Len(parts) # 2 THEN [exc |-> "ValueError"]
    ELSE TryInts(PyInt(parts[1]), PyInt(parts[2]))

\* the body of the try block
TryRatio(size) == TryParts(Split(Lower(size), "x"))

\* except (ValueError, ZeroDivisionError): pass; then the default fallback
ExceptPass(try) ==
    IF try.exc \in {"pass", "ValueError", "ZeroDivisionError"}
    THEN [exc |-> "", aspect |-> <<"1", ":", "1">>]
    ELSE try

\* GeminiBackend._parse_size: [exc |-> "", aspect] or the exception it raises
_parse_size(size) ==
    IF size \in VALID_ASPECTS THEN [exc |-> "", aspect |-> size]
    ELSE IF size \in SizeKeys THEN [exc |-> "", aspect |-> SIZE_TO_ASPECT(size)]
    ELSE ExceptPass(IF Contains(size, "x") THEN TryRatio(size) ELSE [exc |-> "pass"])

(***************************************************************************)
(* State.  One run of the command (cli.py main) and, for _parse_size taken *)
(* alone, one call of it.                                                  *)
(***************************************************************************)
VARIABLES
    pc,         \* where main is: a step name, or "exit" once the process has ended
    argv,       \* the command line
    environ,    \* os.environ
    args,       \* the argparse namespace (args.prompt is rewritten from the prompt file)
    run,        \* main's locals: generation_mode, output_base, config
    backend,    \* the backend object get_backend returned: "none", "gpt" or "gemini"
    invoked,    \* the backend methods main has called, in order
    i,          \* GeminiBackend.generate: the loop variable of `for i in range(config.count)`
    calls,      \* the remote requests issued so far, in order
    results,    \* the list of ImageGenResult being built, then returned to main
    existing,   \* the names the persistence step found in the output directory
    written,    \* the paths written by write_bytes, in order
    status,     \* the process exit status (-1 while running)
    raised,     \* the exception that left main uncaught ("" if none)
    failure,    \* which step ended the run ("" while running or on success)
    size,       \* _parse_size taken alone: its argument
    aspect      \* _parse_size taken alone: what the call did ("pending" before it)

vars == << pc, argv, environ, args, run, backend, invoked, i, calls, results, existing,
           written, status, raised, failure, size, aspect >>

(***************************************************************************)
(* Paths.  A path is [stem, ext]: the stem is a tuple, <<"a">> for a and   *)
(* <<"a", 1>> for a_1; the extension is <<>> or <<".", x>>.  An optional   *)
(* value is <<>> (None) or <<v>>.                                          *)
(***************************************************************************)
Path(stem, x) == [stem |-> <<stem>>, ext |-> <<".", x>>]

\* the paths a command line names here, and which of them exist
ImgA == Path("a", "png")

ImgB == Path("b", "JPG")

ImgGif == Path("c", "gif")

ImgMissing == Path("d", "png")

PromptFile == Path("p", "txt")

PromptMissing == Path("q", "txt")

\* a prompt file that holds white space only
PromptBlank == Path("w", "txt")

OutPath == Path("out", "png")

InputFiles == {ImgA, ImgB, ImgGif, PromptFile, PromptBlank}

\* Path.read_text() of a prompt file
FileText(path) == IF path = PromptBlank THEN <<" ", " ">> ELSE <<" ", "h", "i", " ">>

\* str.lower on the extensions used here
LowerTok(x) ==
    CASE x = "JPG" -> "jpg"
      [] x = "PNG" -> "png"
      [] OTHER -> x

\* path.suffix.lower()
SuffixLower(path) == IF path.ext = <<>> THEN <<>> ELSE <<".", LowerTok(path.ext[2])>>

\* cli.py VALID_EXTENSIONS
VALID_EXTENSIONS == {<<".", "png">>, <<".", "jpg">>, <<".", "jpeg">>, <<".", "webp">>}

\* cli.py DEFAULT_SIZE
DEFAULT_SIZE == <<"1", "0", "2", "4", "x", "1", "0", "2", "4">>

(***************************************************************************)
(* The inputs of a run: command lines and environments.                    *)
(***************************************************************************)
MaxCount == 2

Repeat(x, n) == [k \in 1..n |-> x]

Apis == {"gpt", "gemini", "dalle"}

PromptArgs ==
    { [prompt |-> <<>>, prompt_file |-> <<>>],
      [prompt |-> << <<"h", "i">> >>, prompt_file |-> <<>>],
      [prompt |-> <<>>, prompt_file |-> <<PromptFile>>],
      [prompt |-> <<>>, prompt_file |-> <<PromptMissing>>],
      [prompt |-> << <<"h", "i">> >>, prompt_file |-> <<PromptFile>>],
      [prompt |-> << <<>> >>, prompt_file |-> <<>>],
      [prompt |-> <<>>, prompt_file |-> <<PromptBlank>>] }

ImageLists ==
    { <<>>, <<ImgA>>, <<ImgB>>, <<ImgA, ImgB>>, <<ImgB, ImgA>>, <<ImgA, ImgGif>>, <<ImgMissing, ImgGif>>,
      Repeat(ImgA, 4), Repeat(ImgA, 5), Repeat(ImgA, 14), Repeat(ImgA, 15) }

Sizes == {DEFAULT_SIZE, <<"1", "6", ":", "9">>}

\* cli.py DEFAULT_QUALITY
DEFAULT_QUALITY == "high"

\* command lines that set --quality, --transparent and --moderation
OptionArgvs ==
    [ api : {"gpt", "gemini"}, prompts : {[prompt |-> << <<"h", "i">> >>, prompt_file |-> <<>>]},
      images : {<<>>, <<ImgA>>}, output : {<<>>}, count : {1}, size : {DEFAULT_SIZE},
      quality : {"high", "medium", "low"}, transparent : BOOLEAN,
      moderation : {"auto", "low"} ]

\* command lines that leave them at their defaults, and those that set them
Argvs ==
    [ api : Apis, prompts : PromptArgs, images : ImageLists, output : {<<>>, <<OutPath>>},
      count : (-1)..MaxCount, size : Sizes, quality : {DEFAULT_QUALITY},
      transparent : {FALSE}, moderation : {"low"} ]
    \cup OptionArgvs

EnvVars == {"OPENAI_API_KEY", "GEMINI_API_KEY", "GOOGLE_API_KEY"}

\* an environment gives each variable a value, or "unset"
Env(openai, gemini, google) ==
    [OPENAI_API_KEY |-> openai, GEMINI_API_KEY |-> gemini, GOOGLE_API_KEY |-> google]

Envs ==
    { Env("unset", "unset", "unset"), Env("sk", "unset", "unset"), Env("", "", "unset"),
      Env("unset", "key", "unset"), Env("unset", "unset", "key") }

NoArgs == [api |-> "none"]

NoRun == [generation_mode |-> FALSE]

\* what a run starts from, the command line and the environment apart
InitRun ==
    /\ args = NoArgs
    /\ run = NoRun
    /\ backend = "none"
    /\ invoked = <<>>
    /\ i = 0
    /\ calls = <<>>
    /\ results = <<>>
    /\ existing = {}
    /\ written = <<>>
    /\ status = -1
    /\ raised = ""
    /\ failure = ""

driverVars == << argv, environ, args, run, backend, invoked, i, calls, results, existing,
                 written, status, raised, failure >>

(***************************************************************************)
(* _parse_size taken alone, over every short string of SizeChars, the keys *)
(* of the tables, and widths at the limit of a float.                      *)
(***************************************************************************)
MaxSizeLen == 3

SizeChars == {"0", "1", "6", "7", "x", "X", ":", "-"}

Strings(chars, n) == UNION {[1..k -> chars] : k \in 0..n}

\* "1" followed by 309 zeros, "x1": 10^309 exceeds the largest float (about 1.8 * 10^308)
HugeSizes ==
    { <<"1">> \o Repeat("0", 309) \o <<"x", "1">>, <<"1">> \o Repeat("0", 308) \o <<"x", "1">> }

SizeInputs == Strings(SizeChars, MaxSizeLen) \cup SizeKeys \cup VALID_ASPECTS \cup HugeSizes

InitSize ==
    /\ pc = "parse_size"
    /\ size \in SizeInputs
    /\ aspect = [exc |-> "pending"]
    /\ argv = [api |-> "gemini", prompts |-> [prompt |-> << <<"h", "i">> >>, prompt_file |-> <<>>],
               images |-> <<>>, output |-> <<>>, count |-> 1, size |-> size]
    /\ environ = Env("unset", "key", "unset")
    /\ InitRun

\* one call of GeminiBackend._parse_size(size)
ParseSizeCall ==
    /\ pc = "parse_size"
    /\ aspect' = Eager(<<_parse_size(size)>>)[1]
    /\ pc' = "parse_size_done"
    /\ UNCHANGED << size, driverVars >>

NextSize == ParseSizeCall

SpecSize == InitSize /\ [][NextSize]_vars

(***************************************************************************)
(* cli.py main, step by step.  The process ends by Exit: sys.exit(code),   *)
(* or an exception that leaves main (the interpreter then exits with 1).   *)
(***************************************************************************)
Exit(code, why, exc) ==
    /\ pc' = "exit"
    /\ status' = code
    /\ failure' = why
    /\ raised' = exc

\* a parser without the choices of --api
parse_args_any_api(a) ==
    IF a.prompts.prompt # <<>> /\ a.prompts.prompt_file # <<>> THEN [ok |-> FALSE]
    ELSE IF a.prompts.prompt = <<>> /\ a.prompts.prompt_file = <<>> THEN [ok |-> FALSE]
    ELSE [ok |-> TRUE,
          args |-> [api |-> a.api, prompt |-> a.prompts.prompt,
                    prompt_file |-> a.prompts.prompt_file, images |-> a.images,
                    output |-> a.output, quality |-> a.quality, size |-> a.size,
                    count |-> a.count, transparent |-> a.transparent,
                    moderation |-> a.moderation]]

\* parser.parse_args(): the namespace, or not ok when parser.error() exits with 2
\* (--api outside its choices; the required, mutually exclusive prompt group)
parse_args(a) ==
    IF a.api \notin {"gpt", "gemini"} THEN [ok |-> FALSE]
    ELSE IF a.prompts.prompt # <<>> /\ a.prompts.prompt_file # <<>> THEN [ok |-> FALSE]
    ELSE IF a.prompts.prompt = <<>> /\ a.prompts.prompt_file = <<>> THEN [ok |-> FALSE]
    ELSE [ok |-> TRUE,
          args |-> [api |-> a.api, prompt |-> a.prompts.prompt,
                    prompt_file |-> a.prompts.prompt_file, images |-> a.images,
                    output |-> a.output, quality |-> a.quality, size |-> a.size,
                    count |-> a.count, transparent |-> a.transparent,
                    moderation |-> a.moderation]]

\* line 98
ParseArgs ==
    /\ pc = "parse_args"
    /\ IF parse_args(argv).ok
       THEN /\ args' = parse_args(argv).args
            /\ pc' = "prompt"
            /\ UNCHANGED << status, failure, raised >>
       ELSE /\ Exit(2, "argparse", "")
            /\ UNCHANGED args
    /\ UNCHANGED << argv, environ, run, backend, invoked, i, calls, results, existing,
                    written, size, aspect >>

\* lines 101-105
ResolvePrompt ==
    /\ pc = "prompt"
    /\ IF args.prompt_file = <<>>
       THEN /\ pc' = "image_count"
            /\ UNCHANGED << args, status, failure, raised >>
       ELSE IF args.prompt_file[1] \notin InputFiles
       THEN /\ Exit(1, "prompt_file", "")
            /\ UNCHANGED args
       ELSE /\ args' = [args EXCEPT !.prompt = <<Strip(FileText(args.prompt_file[1]))>>]
            /\ pc' = "image_count"
            /\ UNCHANGED << status, failure, raised >>
    /\ UNCHANGED << argv, environ, run, backend, invoked, i, calls, results, existing,
                    written, size, aspect >>

\* a single ceiling for every backend
max_images_flat(api) == 14

\* line 108
max_images(api) == IF api = "gpt" THEN 4 ELSE 14

\* lines 108-111
CheckImageCount ==
    /\ pc = "image_count"
    /\ IF Len(args.images) > max_images(args.api)
       THEN Exit(1, "image_count", "")
       ELSE pc' = "api_key" /\ UNCHANGED << status, failure, raised >>
    /\ UNCHANGED << argv, environ, args, run, backend, invoked, i, calls, results, existing,
                    written, size, aspect >>

\* `not os.environ.get(name)`: unset (None) or empty
Unset(env, name) == env[name] \in {"unset", ""}

\* check_api_key returns (TRUE), or exits (FALSE)
check_api_key(api, env) ==
    IF api = "gpt" /\ Unset(env, "OPENAI_API_KEY") THEN FALSE
    ELSE IF api = "gemini" /\ Unset(env, "GEMINI_API_KEY") /\ Unset(env, "GOOGLE_API_KEY")
    THEN FALSE
    ELSE TRUE

\* line 114
CheckApiKey ==
    /\ pc = "api_key"
    /\ IF check_api_key(args.api, environ)
       THEN pc' = "images" /\ UNCHANGED << status, failure, raised >>
       ELSE Exit(1, "api_key", "")
    /\ UNCHANGED << argv, environ, args, run, backend, invoked, i, calls, results, existing,
                    written, size, aspect >>

\* validate_image_path returns (""), or exits after the message named
validate_image_path(path) ==
    IF path \notin InputFiles THEN "File not found"
    ELSE IF SuffixLower(path) \notin VALID_EXTENSIONS THEN "Invalid image format"
    ELSE ""

\* lines 117-118
ValidateImages ==
    /\ pc = "images"
    /\ IF \E k \in 1..Len(args.images) : validate_image_path(args.images[k]) # ""
       THEN Exit(1, "image_path", "")
       ELSE pc' = "configure" /\ UNCHANGED << status, failure, raised >>
    /\ UNCHANGED << argv, environ, args, run, backend, invoked, i, calls, results, existing,
                    written, size, aspect >>

\* the default taken from the first input image
output_base_first(a) ==
    IF a.output # <<>> THEN a.output[1]
    ELSE IF Len(a.images) = 0 THEN Path("generated", "png")
    ELSE a.images[1]

\* lines 124-129 (a Path is always true, so a given --output is always used)
output_base(a) ==
    IF a.output # <<>> THEN a.output[1]
    ELSE IF Len(a.images) = 0 THEN Path("generated", "png")
    ELSE a.images[Len(a.images)]

\* a Python list and a Python tuple of the same items are different values
PyList(items) == [kind |-> "list", items |-> items]

PyTuple(items) == [kind |-> "tuple", items |-> items]

\* tuple(x) of a list or a tuple
tuple(x) == [kind |-> "tuple", items |-> x.items]

\* base.py ImageGenConfig.__init__ (lines 20-36) on its keyword arguments
ImageGenConfig(kw) ==
    [prompt |-> kw.prompt, images |-> tuple(kw.images), quality |-> kw.quality,
     size |-> kw.size, count |-> kw.count, transparent |-> kw.transparent,
     moderation |-> kw.moderation]

\* the keyword arguments main passes (cli.py lines 132-140); args.images is a list
config_kwargs(a) ==
    [prompt |-> a.prompt[1], images |-> PyList(a.images), quality |-> a.quality,
     size |-> a.size, count |-> a.count, transparent |-> a.transparent,
     moderation |-> a.moderation]

\* lines 121-140
Configure ==
    /\ pc = "configure"
    /\ run' = [generation_mode |-> Len(args.images) = 0,
               output_base |-> output_base(args),
               config |-> ImageGenConfig(config_kwargs(args))]
    /\ pc' = "get_backend"
    /\ UNCHANGED << argv, environ, args, backend, invoked, i, calls, results, existing,
                    written, status, raised, failure, size, aspect >>

(***************************************************************************)
(* The try block of main (lines 143-195) and the backends.                 *)
(***************************************************************************)
\* a handler that catches ValueError only
except_value_error(exc) ==
    IF exc \in {"SystemExit", "ValueError"} THEN [status |-> 1, raised |-> ""]
    ELSE [status |-> 1, raised |-> exc]

\* `except Exception` (lines 193-195): every exception raised in the try
\* block is caught and turned into sys.exit(1); a SystemExit raised inside
\* (sys.exit(1) in a backend or at line 160) is no Exception and ends the
\* process with its own code, 1
main_except(exc) ==
    IF exc = "SystemExit" THEN [status |-> 1, raised |-> ""]
    ELSE [status |-> 1, raised |-> ""]

Raise(exc, why) == Exit(main_except(exc).status, why, main_except(exc).raised)

\* backends/__init__.py get_backend: the class constructed, or ValueError
get_backend(api_name) ==
    IF api_name = "gpt" THEN "OpenAIBackend"
    ELSE IF api_name = "gemini" THEN "GeminiBackend"
    ELSE "ValueError"

\* what a backend constructor can do: succeed, find its package missing
\* (sys.exit(1)), or fail in the client constructor
ConstructorOutcomes == {"ok", "ImportError", "ClientError"}

\* line 145
GetBackend ==
    /\ pc = "get_backend"
    /\ \E outcome \in ConstructorOutcomes :
          IF get_backend(args.api) = "ValueError"
          THEN Raise("ValueError", "backend") /\ UNCHANGED backend
          ELSE IF outcome = "ImportError"
          THEN Raise("SystemExit", "backend") /\ UNCHANGED backend
          ELSE IF outcome = "ClientError"
          THEN Raise("ClientError", "backend") /\ UNCHANGED backend
          ELSE /\ backend' = get_backend(args.api)
               /\ pc' = "validate_config"
               /\ UNCHANGED << status, failure, raised >>
    /\ UNCHANGED << argv, environ, args, run, invoked, i, calls, results, existing,
                    written, size, aspect >>

\* validate_config of either backend: the warnings (openai_backend.py 44-46,
\* gemini_backend.py 68-79)
validate_config(b, config) ==
    IF b = "OpenAIBackend" THEN <<>>
    ELSE (IF config.transparent THEN <<"--transparent not supported">> ELSE <<>>)
         \o (IF config.count > 1 THEN <<"will make count API calls">> ELSE <<>>)

\* lines 146-147
ValidateConfig ==
    /\ pc = "validate_config"
    /\ run' = [generation_mode |-> run.generation_mode, output_base |-> run.output_base,
               config |-> run.config, warnings |-> validate_config(backend, run.config)]
    /\ pc' = "invoke"
    /\ UNCHANGED << argv, environ, args, backend, invoked, i, calls, results, existing,
                    written, status, raised, failure, size, aspect >>

\* lines 149-156: main calls one method of the backend
Invoke ==
    /\ pc = "invoke"
    /\ invoked' = Append(invoked, IF run.generation_mode THEN "generate" ELSE "edit")
    /\ pc' = IF run.generation_mode THEN "generate" ELSE "edit"
    /\ UNCHANGED << argv, environ, args, run, backend, i, calls, results, existing,
                    written, status, raised, failure, size, aspect >>

(***************************************************************************)
(* openai_backend.py.  A response is the list response.data; an item has   *)
(* b64_json, or a url (whose download succeeds or fails), or neither.      *)
(***************************************************************************)
GptResponses ==
    { <<>>, <<"b64_json">>, <<"url">>, <<"b64_json", "b64_json">>, <<"b64_json", "neither">>,
      <<"url_unreachable">> }

\* _decode_result of item j of the response: the result, or the exception
_decode_result(item, j) ==
    IF item = "b64_json" \/ item = "url"
    THEN [exc |-> "", result |-> [image_data |-> <<1, j>>, format |-> "png"]]
    ELSE IF item = "url_unreachable" THEN [exc |-> "URLError"]
    ELSE [exc |-> "ValueError"]

\* [self._decode_result(r) for r in response.data]
DecodeAll(data) ==
    IF \E j \in 1..Len(data) : _decode_result(data[j], j).exc # ""
    THEN [exc |-> _decode_result(data[CHOOSE j \in 1..Len(data) :
                      /\ _decode_result(data[j], j).exc # ""
                      /\ \A k \in 1..(j - 1) : _decode_result(data[k], k).exc = ""], 0).exc]
    ELSE [exc |-> "", results |-> [j \in 1..Len(data) |-> _decode_result(data[j], j).result]]

\* get_media_type
get_media_type(path) ==
    IF SuffixLower(path) \in {<<".", "jpg">>, <<".", "jpeg">>} THEN <<"image", "/", "jpeg">>
    ELSE IF SuffixLower(path) = <<".", "png">> THEN <<"image", "/", "png">>
    ELSE IF SuffixLower(path) = <<".", "webp">> THEN <<"image", "/", "webp">>
    ELSE <<"image", "/">> \o Tail(SuffixLower(path))

\* the keyword arguments of client.images.generate (lines 61-69)
GptGenerateRequest(config) ==
    [method |-> "images.generate", prompt |-> config.prompt, size |-> config.size,
     quality |-> config.quality, n |-> config.count,
     background |-> IF config.transparent THEN "transparent" ELSE "opaque",
     moderation |-> config.moderation]

\* the keyword arguments of client.images.edit (lines 74-82)
GptEditRequest(config) ==
    [method |-> "images.edit",
     image |-> [k \in 1..Len(config.images.items) |->
                   <<config.images.items[k], get_media_type(config.images.items[k])>>],
     prompt |-> config.prompt, size |-> config.size, quality |-> config.quality,
     n |-> config.count]

\* one remote call of the GPT backend and the decoding of what it returns;
\* the call itself may raise
GptCall(request) ==
    /\ calls' = Append(calls, request)
    /\ \/ /\ Raise("APIError", "call")
          /\ UNCHANGED results
       \/ \E data \in GptResponses :
             IF DecodeAll(data).exc # ""
             THEN Raise(DecodeAll(data).exc, "call") /\ UNCHANGED results
             ELSE /\ results' = DecodeAll(data).results
                  /\ pc' = "check_results"
                  /\ UNCHANGED << status, failure, raised >>

\* OpenAIBackend.generate
GptGenerate ==
    /\ pc = "generate" /\ backend = "OpenAIBackend"
    /\ GptCall(GptGenerateRequest(run.config))
    /\ UNCHANGED << argv, environ, args, run, backend, invoked, i, existing, written,
                    size, aspect >>

\* OpenAIBackend.edit
GptEdit ==
    /\ pc = "edit" /\ backend = "OpenAIBackend"
    /\ GptCall(GptEditRequest(run.config))
    /\ UNCHANGED << argv, environ, args, run, backend, invoked, i, existing, written,
                    size, aspect >>

(***************************************************************************)
(* gemini_backend.py.  A response is [candidates]: a list of candidates,   *)
(* each the list of its content parts; a part has inline_data (with a      *)
(* mime type, a list of tokens) or not (text).                             *)
(***************************************************************************)
Text == [inline_data |-> FALSE]

Img(subtype) == [inline_data |-> TRUE, mime_type |-> <<"image", "/">> \o subtype]

GeminiResponses ==
    { [candidates |-> <<>>],
      [candidates |-> << <<Img(<<"png">>)>> >>],
      [candidates |-> << <<Img(<<"jpeg">>)>> >>],
      [candidates |-> << <<Img(<<"gif">>)>> >>],
      [candidates |-> << <<Text, Img(<<>>)>> >>],
      [candidates |-> << <<Img(<<"png">>), Img(<<"jpeg">>)>> >>] }

\* the string of a list of tokens that holds no "/"
Token(toks) == IF toks = <<>> THEN "" ELSE toks[1]

\* line 147: mime_type.split("/")[-1] if "/" in mime_type else "png"
FormatOf(mime_type) ==
    IF Contains(mime_type, "/")
    THEN Token(Split(mime_type, "/")[Len(Split(mime_type, "/"))])
    ELSE "png"

\* lines 144-153, from part j on: one result for each part with inline_data;
\* image_data is <<call, part>>, the bytes of that part of that call's response
RECURSIVE ExtractParts(_, _, _)
ExtractParts(parts, j, call) ==
    IF j > Len(parts) THEN <<>>
    ELSE (IF parts[j].inline_data
          THEN << [image_data |-> <<call, j>>, format |-> FormatOf(parts[j].mime_type)] >>
          ELSE <<>>) \o ExtractParts(parts, j + 1, call)

\* GeminiBackend._extract_images, for the response of the call numbered call
_extract_images(response, call) ==
    IF response.candidates = <<>> THEN <<>>
    ELSE ExtractParts(response.candidates[1], 1, call)

\* cli.py/gemini_backend.py QUALITY_TO_SIZE
QUALITY_TO_SIZE(quality) ==
    CASE quality = "high" -> "4K"
      [] quality = "medium" -> "2K"
      [] OTHER -> "1K"

\* the arguments of client.models.generate_content (lines 160-171, 208-219)
GeminiRequest(contents, aspect_ratio, image_size) ==
    [method |-> "models.generate_content", contents |-> contents,
     aspect_ratio |-> aspect_ratio, image_size |-> image_size]

\* lines 176-181: _parse_size may raise
GeminiGenerateStart ==
    /\ pc = "generate" /\ backend = "GeminiBackend"
    /\ IF _parse_size(run.config.size).exc # ""
       THEN /\ Raise(_parse_size(run.config.size).exc, "call")
            /\ UNCHANGED << run, i, results >>
       ELSE /\ run' = [generation_mode |-> run.generation_mode,
                       output_base |-> run.output_base, config |-> run.config,
                       warnings |-> run.warnings,
                       aspect_ratio |-> _parse_size(run.config.size).aspect,
                       image_size |-> QUALITY_TO_SIZE(run.config.quality)]
            /\ i' = 0
            /\ results' = <<>>
            /\ pc' = "generate_loop"
            /\ UNCHANGED << status, failure, raised >>
    /\ UNCHANGED << argv, environ, args, backend, invoked, calls, existing, written,
                    size, aspect >>

\* a loop that runs one time too many
InRangeInclusive(k, n) == k >= 0 /\ k <= n

\* `for i in range(config.count)`: i is the next index; the loop goes on
InRange(k, n) == k >= 0 /\ k < n

\* lines 182-187: one iteration, one remote call (_generate_single)
GeminiGenerateSingle ==
    /\ pc = "generate_loop" /\ InRange(i, run.config.count)
    /\ calls' = Append(calls, GeminiRequest(<<run.config.prompt>>, run.aspect_ratio,
                                            run.image_size))
    /\ \/ /\ Raise("APIError", "call")
          /\ UNCHANGED << i, results >>
       \/ \E response \in GeminiResponses :
             /\ results' = results \o _extract_images(response, Len(calls) + 1)
             /\ i' = i + 1
             /\ UNCHANGED << pc, status, failure, raised >>
    /\ UNCHANGED << argv, environ, args, run, backend, invoked, existing, written,
                    size, aspect >>

\* line 188: the loop is over, generate returns results
GeminiGenerateReturn ==
    /\ pc = "generate_loop" /\ ~InRange(i, run.config.count)
    /\ pc' = "check_results"
    /\ UNCHANGED << argv, environ, args, run, backend, invoked, i, calls, results,
                    existing, written, status, raised, failure, size, aspect >>

\* what can go wrong in edit before the call: Pillow missing (sys.exit(1)),
\* Image.open failing on an input
EditOutcomes == {"ok", "ImportError", "UnidentifiedImageError"}

\* GeminiBackend.edit: one remote call
GeminiEdit ==
    /\ pc = "edit" /\ backend = "GeminiBackend"
    /\ \E outcome \in EditOutcomes :
          IF outcome = "ImportError"
          THEN Raise("SystemExit", "call") /\ UNCHANGED << calls, results >>
          ELSE IF _parse_size(run.config.size).exc # ""
          THEN Raise(_parse_size(run.config.size).exc, "call") /\ UNCHANGED << calls, results >>
          ELSE IF outcome = "UnidentifiedImageError"
          THEN Raise("UnidentifiedImageError", "call") /\ UNCHANGED << calls, results >>
          ELSE /\ calls' = Append(calls,
                      GeminiRequest(<<run.config.prompt>> \o run.config.images.items,
                                    _parse_size(run.config.size).aspect,
                                    QUALITY_TO_SIZE(run.config.quality)))
               /\ \/ /\ Raise("APIError", "call")
                     /\ UNCHANGED results
                  \/ \E response \in GeminiResponses :
                        /\ results' = _extract_images(response, Len(calls) + 1)
                        /\ pc' = "check_results"
                        /\ UNCHANGED << status, failure, raised >>
    /\ UNCHANGED << argv, environ, args, run, backend, invoked, i, existing, written,
                    size, aspect >>

(***************************************************************************)
(* Back in main: the results are checked, then written (lines 158-191).    *)
(***************************************************************************)
\* lines 158-160: sys.exit(1) inside the try block
CheckResults ==
    /\ pc = "check_results"
    /\ IF results = <<>>
       THEN Raise("SystemExit", "empty")
       ELSE pc' = "persist" /\ UNCHANGED << status, failure, raised >>
    /\ UNCHANGED << argv, environ, args, run, backend, invoked, i, calls, results,
                    existing, written, size, aspect >>

MaxSlot == 2

\* the output directory before the run: for each number up to MaxSlot, no
\* file <base>_<n>.* or one, with one of these extensions
PreExts == {"png", "jpg", "gif"}

OutName(base, n, ext) == [stem |-> base \o <<n>>, ext |-> ext]

PreExisting(base) ==
    { {OutName(base, n, <<".", f[n]>>) : n \in {m \in 1..MaxSlot : f[m] # ""}} :
        f \in [1..MaxSlot -> PreExts \cup {""}] }

\* line 168
all_extensions == {<<".", "png">>, <<".", "jpg">>, <<".", "jpeg">>, <<".", "webp">>}

\* lines 169-172 and 180-183: the while loop, from suffix_num = n
RECURSIVE NextFree(_, _, _)
NextFree(fs, base, n) ==
    IF \E ext \in all_extensions : OutName(base, n, ext) \in fs
    THEN NextFree(fs, base, n + 1)
    ELSE n

\* the extension taken from the format tag as it is
out_ext_raw(format) == <<".", IF format # "" THEN format ELSE "png">>

\* lines 176-177
out_ext(format) ==
    IF (IF format # "" THEN format ELSE "png") = "jpeg" THEN <<".", "jpg">>
    ELSE <<".", IF format # "" THEN format ELSE "png">>

\* lines 174-188, from result k on with suffix_num = n: the paths written
RECURSIVE WriteFrom(_, _, _, _, _)
WriteFrom(rs, k, fs, base, n) ==
    IF k > Len(rs) THEN <<>>
    ELSE <<OutName(base, NextFree(fs, base, n), out_ext(rs[k].format))>>
         \o WriteFrom(rs, k + 1,
                      fs \cup {OutName(base, NextFree(fs, base, n), out_ext(rs[k].format))},
                      base, NextFree(fs, base, n) + 1)

\* lines 163-191: what the directory holds is found out here; every result
\* is written, then main returns
Persist ==
    /\ pc = "persist"
    /\ \E pre \in PreExisting(run.output_base.stem) :
          /\ existing' = pre
          /\ written' = WriteFrom(results, 1, pre, run.output_base.stem,
                                  NextFree(pre, run.output_base.stem, 1))
    /\ Exit(0, "", "")
    /\ UNCHANGED << argv, environ, args, run, backend, invoked, i, calls, results,
                    size, aspect >>

Init ==
    /\ pc = "parse_args"
    /\ argv \in Argvs
    /\ environ \in Envs
    /\ InitRun
    /\ size = <<>>
    /\ aspect = [exc |-> "pending"]

Next ==
    \/ ParseArgs
    \/ ResolvePrompt
    \/ CheckImageCount
    \/ CheckApiKey
    \/ ValidateImages
    \/ Configure
    \/ GetBackend
    \/ ValidateConfig
    \/ Invoke
    \/ GptGenerate
    \/ GptEdit
    \/ GeminiGenerateStart
    \/ GeminiGenerateSingle
    \/ GeminiGenerateReturn
    \/ GeminiEdit
    \/ CheckResults
    \/ Persist

Spec == Init /\ [][Next]_vars

(***************************************************************************)
(* ImageGenConfig as tests/test_cli.py TestImageGenConfig uses it: built   *)
(* from keyword arguments, read back, and assigned to.                     *)
(***************************************************************************)
ConfigFields == {"prompt", "images", "quality", "size", "count", "transparent", "moderation"}

\* the keyword arguments of a construction
ConfigKwargs ==
    [ prompt : {<<"h", "i">>, <<>>},
      images : {PyList(<<>>), PyList(<<ImgA>>), PyList(<<ImgA, ImgB>>),
                PyTuple(<<ImgA, ImgB>>), PyTuple(<<ImgB, ImgA>>)},
      quality : {"high", "medium"}, size : Sizes, count : {1, 2},
      transparent : BOOLEAN, moderation : {"auto", "low"} ]

\* a value for a field that differs from the one it holds
Modified(obj, name) ==
    CASE name = "prompt" -> obj.prompt \o <<"!">>
      [] name = "images" -> PyTuple(obj.images.items \o <<ImgGif>>)
      [] name = "quality" -> IF obj.quality = "low" THEN "high" ELSE "low"
      [] name = "size" -> <<"4", ":", "3">>
      [] name = "count" -> obj.count + 1
      [] name = "transparent" -> ~obj.transparent
      [] name = "moderation" -> IF obj.moderation = "low" THEN "auto" ELSE "low"

\* an assignment without the frozen check
setattr_plain(obj, name, value) == [obj |-> [obj EXCEPT ![name] = value], exc |-> ""]

\* obj.name = value on a dataclass(frozen=True) instance (base.py line 8)
setattr(obj, name, value) == [obj |-> obj, exc |-> "FrozenInstanceError"]

InitConfig ==
    /\ pc = "test_config"
    /\ args \in ConfigKwargs
    /\ argv = NoArgs
    /\ environ = Env("unset", "unset", "unset")
    /\ run = NoRun
    /\ backend = "none" /\ invoked = <<>> /\ i = 0 /\ calls = <<>> /\ results = <<>>
    /\ existing = {} /\ written = <<>> /\ status = -1 /\ raised = "" /\ failure = ""
    /\ size = <<>>
    /\ aspect = [exc |-> "pending"]

\* config = ImageGenConfig(...)
ConfigNew ==
    /\ pc = "test_config"
    /\ run' = [config |-> ImageGenConfig(args)]
    /\ pc' = "test_config_built"
    /\ UNCHANGED << argv, environ, args, backend, invoked, i, calls, results, existing,
                    written, status, raised, failure, size, aspect >>

\* config.<name> = value, under pytest.raises
ConfigSetAttr ==
    /\ pc = "test_config_built"
    /\ \E name \in ConfigFields :
          /\ run' = [config |-> setattr(run.config, name, Modified(run.config, name)).obj]
          /\ raised' = setattr(run.config, name, Modified(run.config, name)).exc
    /\ pc' = "test_config_assigned"
    /\ UNCHANGED << argv, environ, args, backend, invoked, i, calls, results, existing,
                    written, status, failure, size, aspect >>

NextConfig ==
    \/ Next
    \/ ConfigNew
    \/ ConfigSetAttr

\* the driver's runs and the test's
SpecConfig == (Init \/ InitConfig) /\ [][NextConfig]_vars

(***************************************************************************)
(* Claims about _parse_size (under SpecSize).                              *)
(***************************************************************************)
\* C1: for every input string _parse_size returns one of the six canonical
\* aspect ratios, and it never raises.
C1_ParseSizeTotal ==
    pc = "parse_size_done" => aspect.exc = "" /\ aspect.aspect \in VALID_ASPECTS

\* a decimal integer as the claim reads it: an optional minus sign, then digits
IsIntLit(s) ==
    LET body == IF s # <<>> /\ s[1] = "-" THEN Tail(s) ELSE s
    IN  body # <<>> /\ \A k \in 1..Len(body) : IsDigit(body[k])

RECURSIVE NatVal(_)
NatVal(s) == IF s = <<>> THEN 0 ELSE 10 * NatVal(SubSeq(s, 1, Len(s) - 1)) + DigitVal(s[Len(s)])

IntVal(s) == IF s[1] = "-" THEN -NatVal(Tail(s)) ELSE NatVal(s)

\* the positions of a separator that splits s into W and H with H # 0
SepAt(s) ==
    {k \in 1..Len(s) :
        /\ s[k] \in {"x", "X"}
        /\ IsIntLit(SubSeq(s, 1, k - 1))
        /\ IsIntLit(SubSeq(s, k + 1, Len(s)))
        /\ IntVal(SubSeq(s, k + 1, Len(s))) # 0}

\* the six canonical ratios n/d in the claim's order
Canon ==
    << [n |-> 1, d |-> 1, v |-> <<"1", ":", "1">>],
       [n |-> 16, d |-> 9, v |-> <<"1", "6", ":", "9">>],
       [n |-> 9, d |-> 16, v |-> <<"9", ":", "1", "6">>],
       [n |-> 4, d |-> 3, v |-> <<"4", ":", "3">>],
       [n |-> 3, d |-> 4, v |-> <<"3", ":", "4">>],
       [n |-> 21, d |-> 9, v |-> <<"2", "1", ":", "9">>] >>

Abs(x) == IF x < 0 THEN -x ELSE x

\* |w/h - Canon[a]| < |w/h - Canon[b]|, exactly (both sides scaled by |h| * d_a * d_b)
Nearer(w, h, a, b) ==
    Abs(w * Canon[a].d - Canon[a].n * h) * Canon[b].d
        < Abs(w * Canon[b].d - Canon[b].n * h) * Canon[a].d

\* the canonical ratio nearest to w/h, the first one on an exact tie
Nearest(w, h) ==
    Canon[CHOOSE a \in 1..Len(Canon) :
              /\ \A b \in 1..(a - 1) : Nearer(w, h, a, b)
              /\ \A b \in (a + 1)..Len(Canon) : ~Nearer(w, h, b, a)].v

\* C2: for a size that is no canonical token and no key of the pixel table
\* and reads W<sep>H (integers, H # 0, sep "x" or "X"), _parse_size returns
\* the canonical ratio nearest to W/H, the first in order on an exact tie.
C2_NearestRatio ==
    \A k \in (IF pc = "parse_size_done" /\ Len(size) <= MaxSizeLen
                 /\ size \notin VALID_ASPECTS /\ size \notin SizeKeys
              THEN SepAt(size) ELSE {}) :
        aspect = [exc |-> "", aspect |-> Nearest(IntVal(SubSeq(size, 1, k - 1)),
                                                  IntVal(SubSeq(size, k + 1, Len(size))))]

(***************************************************************************)
(* Claims about the driver and the backends (under Spec).                  *)
(***************************************************************************)
\* the claim's ceilings
Ceiling(api) == IF api = "gpt" THEN 4 ELSE 14

\* the backend's credential variable is set
CredentialSet ==
    IF argv.api = "gpt" THEN environ["OPENAI_API_KEY"] # "unset"
    ELSE environ["GEMINI_API_KEY"] # "unset" \/ environ["GOOGLE_API_KEY"] # "unset"

ImagesValid ==
    \A k \in 1..Len(argv.images) :
        /\ argv.images[k] \in InputFiles
        /\ SuffixLower(argv.images[k]) \in {<<".", x>> : x \in {"png", "jpg", "jpeg", "webp"}}

ValidationFailures == {"image_count", "api_key", "image_path"}

\* C3: no backend is constructed and no remote call issued unless the image
\* count is within the ceiling (4 gpt, 14 gemini), the credential is set and
\* every image exists with a valid extension, checked in this order; a
\* failure of one of them ends the run with status 1, no call, no file.
C3_ValidationFirst ==
    /\ (backend # "none" \/ calls # <<>> \/ invoked # <<>>) =>
          /\ Len(argv.images) <= Ceiling(argv.api)
          /\ CredentialSet
          /\ ImagesValid
    /\ failure \in ValidationFailures =>
          /\ pc = "exit" /\ status = 1
          /\ backend = "none" /\ calls = <<>> /\ written = <<>>
    /\ failure = "api_key" => Len(argv.images) <= Ceiling(argv.api)
    /\ failure = "image_path" => Len(argv.images) <= Ceiling(argv.api) /\ CredentialSet
    /\ (pc = "exit" /\ failure \notin {"argparse", "prompt_file"}
          /\ ~(Len(argv.images) <= Ceiling(argv.api) /\ CredentialSet /\ ImagesValid)) =>
          failure \in ValidationFailures
    /\ (argv.api = "gpt" /\ Len(argv.images) = 5) =>
          /\ backend = "none" /\ calls = <<>>
          /\ pc = "exit" => status # 0

C3_Witness ==
    /\ pc = "exit" /\ argv.api = "gpt" /\ Len(argv.images) = 5
    /\ failure = "image_count" /\ status = 1 /\ calls = <<>> /\ backend = "none"

\* the backend method main called has returned
Returned ==
    /\ Len(invoked) = 1
    /\ pc \in {"check_results", "persist"} \/ (pc = "exit" /\ failure \in {"", "empty"})

GeminiGenerate == backend = "GeminiBackend" /\ invoked = <<"generate">>

FromCall(c) == {k \in 1..Len(results) : results[k].image_data[1] = c}

\* C5: in a Gemini generate every call contributes 0 or 1 results, so there
\* are at most count results, and they are in the order of their calls.
C5_AtMostOnePerCall ==
    GeminiGenerate =>
        /\ \A c \in 1..Len(calls) : Cardinality(FromCall(c)) <= 1
        /\ Len(results) <= Max(run.config.count, 0)
        /\ \A k, l \in 1..Len(results) :
              k < l => results[k].image_data[1] <= results[l].image_data[1]

\* a number is free when no file <base>_<n> exists with one of the four extensions
Free(n) ==
    \A x \in {"png", "jpg", "jpeg", "webp"} :
        OutName(run.output_base.stem, n, <<".", x>>) \notin existing

\* the smallest free number from lo on
MinFree(lo) ==
    CHOOSE n \in lo..(lo + MaxSlot) : Free(n) /\ \A m \in lo..(n - 1) : ~Free(m)

\* the number the claim gives result k
ClaimedNumber(k) ==
    MinFree(IF k = 1 THEN 1 ELSE written[k - 1].stem[Len(written[k - 1].stem)] + 1)

Done == pc = "exit" /\ status = 0

\* C6 as stated: result k is written to <base>_<n><ext> with n the smallest
\* free number (above the previous result's) and ext .jpg for jpeg, else
\* .<format>.
C6_NamingAsStated ==
    Done =>
        /\ Len(written) = Len(results)
        /\ \A k \in 1..Len(results) :
              written[k] = OutName(run.output_base.stem, ClaimedNumber(k),
                                   IF results[k].format = "jpeg" THEN <<".", "jpg">>
                                   ELSE <<".", results[k].format>>)

\* C6 amended: the same, with ext .png for an empty format tag.
C6_Naming ==
    Done =>
        /\ Len(written) = Len(results)
        /\ \A k \in 1..Len(results) :
              written[k] = OutName(run.output_base.stem, ClaimedNumber(k),
                                   IF results[k].format = "jpeg" THEN <<".", "jpg">>
                                   ELSE IF results[k].format = "" THEN <<".", "png">>
                                   ELSE <<".", results[k].format>>)
        /\ (existing = {OutName(run.output_base.stem, 1, <<".", "png">>),
                        OutName(run.output_base.stem, 2, <<".", "jpg">>)}
              /\ results[1].format = "png") =>
              written[1] = OutName(run.output_base.stem, 3, <<".", "png">>)

C6_Witness ==
    /\ Done
    /\ existing = {OutName(run.output_base.stem, 1, <<".", "png">>),
                   OutName(run.output_base.stem, 2, <<".", "jpg">>)}
    /\ Len(results) = 2 /\ results[1].format = "png" /\ results[2].format = "jpeg"
    /\ written = <<OutName(run.output_base.stem, 3, <<".", "png">>),
                   OutName(run.output_base.stem, 4, <<".", "jpg">>)>>

\* C7: no result is written to a path that existed before the run, and no
\* two results of a run are written to the same path.
C7_CollisionFree ==
    Done =>
        /\ \A k \in 1..Len(written) : written[k] \notin existing
        /\ \A k, l \in 1..Len(written) : k # l => written[k] # written[l]

\* C8: when backend construction, validate_config, generate or edit raises,
\* or the result is empty, the run ends with status 1, no exception leaves
\* main and no output file has been written.
C8_BackendFailureTerminal ==
    /\ failure \in {"backend", "call", "empty"} =>
          pc = "exit" /\ status = 1 /\ raised = "" /\ written = <<>>
    /\ (pc = "exit" /\ backend # "none" /\ written = <<>>) =>
          failure \in {"call", "empty"} /\ status = 1 /\ raised = ""

C8_Witness ==
    /\ pc = "exit" /\ failure = "call" /\ backend = "GeminiBackend"
    /\ Len(calls) = 2 /\ results # <<>> /\ status = 1 /\ written = <<>>

\* the command line names no known backend, or not exactly one prompt source
ArgvRejected ==
    \/ argv.api \notin {"gpt", "gemini"}
    \/ (argv.prompts.prompt = <<>>) = (argv.prompts.prompt_file = <<>>)

\* C9 as stated: status 0 on success, 1 on every failure (unrecognized
\* backend and prompt-source violations included).
C9_ZeroOrOne ==
    pc = "exit" =>
        /\ status \in {0, 1}
        /\ status = 0 <=> (failure = "" /\ ~ArgvRejected)

\* C9 amended: status 0 on success, 2 when command-line parsing rejects the
\* arguments (unrecognized backend, neither or both prompt sources), 1 on
\* every other failure.
C9_ExitStatus ==
    pc = "exit" =>
        /\ status = (IF ArgvRejected THEN 2 ELSE IF failure = "" THEN 0 ELSE 1)
        /\ status = 0 => written # <<>> /\ Len(written) = Len(results)
        /\ (failure = "argparse") = ArgvRejected

C9_Witness == pc = "exit" /\ status = 2 /\ argv.api = "dalle" /\ failure = "argparse"

\* C10: a run that reaches backend invocation calls exactly one of generate
\* and edit, once: generate iff there is no input image; without --output
\* the output base is generated.png in generation mode, else the last input.
C10_OneMethod ==
    /\ Len(invoked) <= 1
    /\ (pc \in {"generate", "edit", "generate_loop", "check_results", "persist"}
          \/ (pc = "exit" /\ failure \in {"call", "empty"}) \/ Done) =>
          invoked = (IF argv.images = <<>> THEN <<"generate">> ELSE <<"edit">>)
    /\ invoked # <<>> =>
          /\ argv.output = <<>> =>
                run.output_base = (IF argv.images = <<>> THEN Path("generated", "png")
                                   ELSE argv.images[Len(argv.images)])
          /\ argv.output # <<>> => run.output_base = argv.output[1]
    /\ \A k \in 1..Len(written) :
          SubSeq(written[k].stem, 1, Len(written[k].stem) - 1) = run.output_base.stem

C10_Witness ==
    /\ Done /\ invoked = <<"edit">> /\ argv.output = <<>>
    /\ argv.images = <<ImgA, ImgB>> /\ run.output_base = ImgB
    /\ written[1].stem = <<"b", 1>>

\* the driver has built its configuration
Configured == "config" \in DOMAIN run

\* C11: the driver never builds a configuration and never invokes a backend
\* with an empty prompt, whether the prompt comes from --prompt or from the
\* stripped contents of --prompt-file.
C11_PromptNonEmpty ==
    /\ Configured => run.config.prompt # <<>>
    /\ (invoked # <<>> \/ calls # <<>>) => Configured /\ run.config.prompt # <<>>

\* the keyword arguments the configuration was built from: main's (cli.py
\* lines 132-140) in a run of the driver, the test's own otherwise
Supplied ==
    IF pc \in {"test_config", "test_config_built", "test_config_assigned"} THEN args
    ELSE [prompt |-> args.prompt[1], images |-> [kind |-> "list", items |-> args.images],
          quality |-> args.quality, size |-> args.size, count |-> args.count,
          transparent |-> args.transparent, moderation |-> args.moderation]

\* C12: a configuration holds for every field the value supplied at
\* construction, images as a tuple of the same items in the same order;
\* assigning a field fails and changes nothing; and in every state of a run
\* after construction (validate_config, generate, edit, persistence) every
\* field still has the supplied value.
C12_ConfigImmutable ==
    /\ Configured =>
          /\ DOMAIN run.config = ConfigFields
          /\ \A f \in ConfigFields \ {"images"} : run.config[f] = Supplied[f]
          /\ run.config.images = [kind |-> "tuple", items |-> Supplied.images.items]
    /\ pc = "test_config_assigned" => raised = "FrozenInstanceError"
    /\ pc \in {"test_config_built", "test_config_assigned"} => Configured

C12_Witness ==
    /\ pc = "test_config_assigned" /\ raised = "FrozenInstanceError"
    /\ args.images = [kind |-> "list", items |-> <<ImgA, ImgB>>]
    /\ run.config.images = [kind |-> "tuple", items |-> <<ImgA, ImgB>>]

\* what the claim has a request carry for a configuration
Mapped(r, config) ==
    /\ {"prompt", "size", "quality", "n", "background", "moderation"} \subseteq DOMAIN r
    /\ r.prompt = config.prompt /\ r.size = config.size /\ r.quality = config.quality
    /\ r.n = config.count
    /\ r.background = (IF config.transparent THEN "transparent" ELSE "opaque")
    /\ r.moderation = config.moderation

\* C13: every remote request the GPT backend issues, in generate and in
\* edit, carries prompt, size, quality, n = count, background = transparent
\* or opaque after config.transparent, and moderation = config.moderation.
C13_GptRequestMapped ==
    backend = "OpenAIBackend" => \A k \in 1..Len(calls) : Mapped(calls[k], run.config)

====
